---- MODULE Spec2Model ----
(***************************************************************************)
(* Model of rs_roguelike (src/src/main.rs): the tile console, its          *)
(* dirty-flag redraw pipeline, the frame loop of main and the layout       *)
(* mapper update_dstrect with its f32 arithmetic.                          *)
(***************************************************************************)
EXTENDS Integers, Sequences, FiniteSets, TLC

VARIABLES
    pc,           \* position of main: startup, poll, keys, dispatch, mutate,
                  \* quitcheck, render, reset, layout, present, done, error, panic
    console,      \* the Console resource: [width, height, tiles]
    frame,        \* frame_texture: destination rectangle -> what was drawn there
    dstrect,      \* the Rect the frame texture is copied to
    dirty_window, \* local flag of main
    window_size,  \* canvas.window().size()
    pressed,      \* the PressedKeycodes resource
    state,        \* the State resource: [quit, randomize]
    render_i,     \* position of the iterator of the render loop (0-based)
    drawn,        \* instrumentation: vec indices passed to draw_tile this frame
    resets,       \* instrumentation: calls of reset_tiles this frame
    resized,      \* instrumentation: a Resized/SizeChanged event was polled this frame
    observed,     \* instrumentation: the Quit event or the failure main has met
    written,      \* instrumentation: vec positions constructed or mutated since
                  \* the last reset_tiles
    first_frame,  \* instrumentation: no frame has been presented yet
    par           \* the workers of the mutation stage, where they are modelled
                  \* one by one: [wpc, decisions, before]

vars == <<pc, console, frame, dstrect, dirty_window, window_size, pressed,
          state, render_i, drawn, resets, resized, observed, written,
          first_frame, par>>

----------------------------------------------------------------------------
(* Bounds of the model *)

\* the console of the model is ConsoleW x ConsoleH tiles (the program's is 140 x 60)
ConsoleW == 2
ConsoleH == 1
\* events returned by one poll_iter
MaxEvents == 2
\* the layout mapper is checked on all windows of 1..MaxDim x 1..MaxDim pixels
MaxDim == 64

----------------------------------------------------------------------------
(* Program constants *)

TILE_W == 14
TILE_H == 16
WINDOW_W == 1280
WINDOW_H == 720
\* the size of the frame texture the program creates: TILE_SIZE * CONSOLE_SIZE
FRAME_W == 1960
FRAME_H == 960

\* cp437.rs is not part of the sources: the glyph range and the default glyph
Cp437_Count == 256
Cp437_QuestionMark == 63
Cp437_from(n) == n

RGBA(r, g, b, a) == [r |-> r, g |-> g, b |-> b, a |-> a]
Rect(x, y, w, h) == [x |-> x, y |-> y, w |-> w, h |-> h]

----------------------------------------------------------------------------
(* f32 arithmetic of update_dstrect.  A positive f32 is <<m, e>> with value  *)
(* m * 2^e and 2^23 <= m < 2^24.  Integers below 2^24 convert exactly.       *)

RECURSIVE Pow2(_)
Pow2(n) == IF n = 0 THEN 1 ELSE 2 * Pow2(n - 1)

RECURSIVE OddPart(_)
OddPart(d) == IF d % 2 = 0 THEN OddPart(d \div 2) ELSE d

RECURSIVE TwoExp(_)
TwoExp(d) == IF d % 2 = 0 THEN 1 + TwoExp(d \div 2) ELSE 0

\* the k >= 0 with lo <= n * 2^k < 2 * lo, for 1 <= n < 2 * lo
RECURSIVE UpShift(_, _)
UpShift(n, lo) == IF n >= lo THEN 0 ELSE 1 + UpShift(2 * n, lo)

\* the j >= 0 with 2^23 <= p / 2^j < 2^24, for p >= 2^23
RECURSIVE DownShift(_)
DownShift(p) == IF p < Pow2(24) THEN 0 ELSE 1 + DownShift(p \div 2)

\* num / den rounded to the nearest integer, ties to even
RoundHalfEven(num, den) ==
    LET q == num \div den
        r == num % den
    IN  IF 2 * r > den THEN q + 1
        ELSE IF 2 * r < den THEN q
        ELSE IF q % 2 = 0 THEN q ELSE q + 1

Normalize(m, e) == IF m = Pow2(24) THEN <<Pow2(23), e + 1>> ELSE <<m, e>>

\* (n as f32) / (d as f32), correctly rounded
F32Div(n, d) ==
    LET odd == OddPart(d)
        k   == UpShift(n, odd * Pow2(23))
    IN  Normalize(RoundHalfEven(n * Pow2(k), odd), 0 - k - TwoExp(d))

\* f * (d as f32), correctly rounded
F32Mul(f, d) ==
    LET p == f[1] * OddPart(d)
        j == DownShift(p)
    IN  Normalize(RoundHalfEven(p, Pow2(j)), f[2] + TwoExp(d) + j)

F32Gt(a, b) == a[2] > b[2] \/ (a[2] = b[2] /\ a[1] > b[1])

\* mutant: the cast rounds to the nearest integer
F32ToI32_Round(f) ==
    IF f[2] >= 0 THEN f[1] * Pow2(f[2])
    ELSE IF 0 - f[2] > 24 THEN 0
    ELSE (f[1] + Pow2(0 - f[2] - 1)) \div Pow2(0 - f[2])

\* f as i32: truncation toward zero
F32ToI32(f) ==
    IF f[2] >= 0 THEN f[1] * Pow2(f[2])
    ELSE IF 0 - f[2] > 24 THEN 0
    ELSE f[1] \div Pow2(0 - f[2])

\* (d as f32 / 2f32) as i32 for an integer d: exact halving, then truncation
HalfToI32(d) == IF d >= 0 THEN d \div 2 ELSE 0 - ((0 - d) \div 2)

\* mutant: the comparison of the two ratios is reversed
update_dstrect_SwapCmp(wh) ==
    LET w == wh[1]
        h == wh[2]
        rat_w == F32Div(w, WINDOW_W)
        rat_h == F32Div(h, WINDOW_H)
    IN  IF F32Gt(rat_h, rat_w)
        THEN LET dw == F32ToI32(F32Mul(rat_h, WINDOW_W))
             IN  Rect(HalfToI32(w - dw), 0, dw, h)
        ELSE LET dh == F32ToI32(F32Mul(rat_w, WINDOW_H))
             IN  Rect(0, HalfToI32(h - dh), w, dh)

update_dstrect(wh) ==
    LET w == wh[1]
        h == wh[2]
        rat_w == F32Div(w, WINDOW_W)
        rat_h == F32Div(h, WINDOW_H)
    IN  IF F32Gt(rat_w, rat_h)
        THEN LET dw == F32ToI32(F32Mul(rat_h, WINDOW_W))
             IN  Rect(HalfToI32(w - dw), 0, dw, h)
        ELSE LET dh == F32ToI32(F32Mul(rat_w, WINDOW_H))
             IN  Rect(0, HalfToI32(h - dh), w, dh)

----------------------------------------------------------------------------
(* Tile and Console *)

\* mutant: a new tile is not dirty
Tile_default_Clean ==
    [row |-> 0, col |-> 0, code_point |-> Cp437_QuestionMark,
     foreground |-> RGBA(255, 0, 0, 255), background |-> RGBA(0, 0, 255, 255),
     dirty |-> FALSE, animations |-> <<>>]

Tile_default ==
    [row |-> 0, col |-> 0, code_point |-> Cp437_QuestionMark,
     foreground |-> RGBA(255, 0, 0, 255), background |-> RGBA(0, 0, 255, 255),
     dirty |-> TRUE, animations |-> <<>>]

\* mutant: Console::new stores the loop variables in the wrong fields
Console_new_Swapped(width, height) ==
    [width  |-> width,
     height |-> height,
     tiles  |-> [k \in 1..(width * height) |->
                    [Tile_default EXCEPT !.row = (k - 1) \div width,
                                         !.col = (k - 1) % width]]]

\* for col in 0..height { for row in 0..width { push } }: position k (1-based)
\* of the vec holds the tile pushed with row = (k-1) % width, col = (k-1) / width
Console_new(width, height) ==
    [width  |-> width,
     height |-> height,
     tiles  |-> [k \in 1..(width * height) |->
                    [Tile_default EXCEPT !.row = (k - 1) % width,
                                         !.col = (k - 1) \div width]]]

\* x and y are far below the u32 range wherever index is reached
index(c, x, y) == x + (y * c.width)

None == [tag |-> "None"]
Some(i, t) == [tag |-> "Some", at |-> i, tile |-> t]
IndexPanic == [tag |-> "Panic"]

\* the vec index is 0-based, the sequence of the model 1-based; indexing a vec
\* out of range panics
tile_mut(c, x, y) ==
    IF x > c.width \/ y > c.height THEN None
    ELSE LET i == index(c, x, y)
         IN  IF i < Len(c.tiles) THEN Some(i, c.tiles[i + 1]) ELSE IndexPanic

\* mutant: reset_tiles flips the flags
reset_tiles_Toggle(c) ==
    [c EXCEPT !.tiles = [k \in DOMAIN c.tiles |->
        [c.tiles[k] EXCEPT !.dirty = ~c.tiles[k].dirty]]]

\* mutant: reset_tiles stops one tile short of the end of the vec
reset_tiles_SkipLast(c) ==
    [c EXCEPT !.tiles = [k \in DOMAIN c.tiles |->
        IF k < Len(c.tiles) THEN [c.tiles[k] EXCEPT !.dirty = FALSE] ELSE c.tiles[k]]]

\* mutant: reset_tiles leaves the flags alone
reset_tiles_Keep(c) == c

reset_tiles(c) ==
    [c EXCEPT !.tiles = [k \in DOMAIN c.tiles |-> [c.tiles[k] EXCEPT !.dirty = FALSE]]]

----------------------------------------------------------------------------
(* draw_tile: what ends up in the frame texture *)

\* mutant: the destination rectangle is computed from (col, row)
Tile_dstrect_Swapped(t) == Rect(t.col * TILE_W, t.row * TILE_H, TILE_W, TILE_H)

Tile_dstrect(t) == Rect(t.row * TILE_W, t.col * TILE_H, TILE_W, TILE_H)

Overlaps(a, b) ==
    /\ a.x < b.x + b.w /\ b.x < a.x + a.w
    /\ a.y < b.y + b.h /\ b.y < a.y + a.h

\* the content of a rectangle of the texture: kind "drawn" after fill_rect with
\* the background and copy of the glyph tinted by the foreground's r, g, b;
\* "filled" after fill_rect alone; "mixed" when partly overwritten; "undefined"
\* for a texture never written
Content(kind, fill, glyph, tint) ==
    [kind |-> kind, fill |-> fill, glyph |-> glyph, tint |-> tint]
NoColor == RGBA(0, 0, 0, 0)
Filled(t) == Content("filled", t.background, 0 - 1, <<0, 0, 0>>)
Drawn(t) ==
    Content("drawn", t.background, t.code_point,
            <<t.foreground.r, t.foreground.g, t.foreground.b>>)
Clobbered == Content("mixed", NoColor, 0 - 1, <<0, 0, 0>>)
Undrawn == Content("undefined", NoColor, 0 - 1, <<0, 0, 0>>)

\* writing content into rectangle d of the texture: other rectangles keep their
\* content unless they overlap d
Blit(f, d, content) ==
    [r \in (DOMAIN f) \cup {d} |->
        IF r = d THEN content
        ELSE IF Overlaps(r, d) THEN Clobbered
        ELSE f[r]]

Cell(f, r) == IF r \in DOMAIN f THEN f[r] ELSE Undrawn

\* outcomes of one draw_tile call: Ok, Err from with_texture_canvas (nothing
\* drawn), or a panic of one of the two expect calls inside the closure
DrawOutcomes == {"Ok", "Err", "PanicFill", "PanicCopy"}

draw_tile(f, t, outcome) ==
    IF outcome = "Ok" THEN Blit(f, Tile_dstrect(t), Drawn(t))
    ELSE IF outcome = "PanicCopy" THEN Blit(f, Tile_dstrect(t), Filled(t))
    ELSE f

----------------------------------------------------------------------------
(* Inputs of a frame *)

Keycodes == {"Escape", "Space"}
Events == {"Quit", "Resized", "SizeChanged", "Other"}
EventSeqs == UNION {[1..n -> Events] : n \in 0..MaxEvents}

\* sizes the window takes in the frame loop
WindowSizes == {<<WINDOW_W, WINDOW_H>>, <<600, 1200>>, <<1920, 720>>}

\* the values random() returns to one worker of the mutation stage: sel decides
\* selection, cp the glyph, f* the foreground and b* the background channels;
\* one draw that leaves the tile alone and one that mutates it
Draws ==
    { [sel |-> 2147483647, cp |-> 0, fr |-> 0, fg |-> 0, fb |-> 0,
       br |-> 0, bg |-> 0, bb |-> 0],
      [sel |-> 2147483640, cp |-> 2147483647, fr |-> 0, fg |-> 77, fb |-> 255,
       br |-> 255, bg |-> 32, bb |-> 7] }

\* if (random::<u32>() % 10) != 0 { return; }: the worker goes on
Selects(d) == (d.sel % 10) = 0

\* mutant: a mutated tile is not marked dirty
MutateTile_NoDirty(t, d) ==
    IF (d.sel % 10) # 0 THEN t
    ELSE [t EXCEPT !.code_point = Cp437_from(d.cp % Cp437_Count),
                   !.foreground = RGBA(d.fr, d.fg, d.fb, 255),
                   !.background = RGBA(d.br % 32, d.bg % 32, d.bb % 32, 255)]

\* the closure of the mutation stage, for one tile
MutateTile(t, d) ==
    IF (d.sel % 10) # 0 THEN t
    ELSE [t EXCEPT !.code_point = Cp437_from(d.cp % Cp437_Count),
                   !.foreground = RGBA(d.fr, d.fg, d.fb, 255),
                   !.background = RGBA(d.br % 32, d.bg % 32, d.bb % 32, 255),
                   !.dirty = TRUE]

\* mutant: the quit flag is never set
SysA_run_NoQuit(keys) ==
    [quit |-> FALSE, randomize |-> "Space" \in keys]

\* mutant: both flags are read from the Escape key
SysA_run_BothEscape(keys) ==
    [quit |-> "Escape" \in keys, randomize |-> "Escape" \in keys]

\* SysA::run
SysA_run(keys) ==
    [quit |-> "Escape" \in keys, randomize |-> "Space" \in keys]

----------------------------------------------------------------------------
(* main *)

\* the mutation stage runs as one step of main: no worker is under way
ParIdle == [wpc |-> << >>, decisions |-> << >>, before |-> << >>]

\* the state of main after the first dispatch (line 353), before the first
\* update_dstrect
Init ==
    /\ pc = "startup"
    /\ console = Console_new(ConsoleW, ConsoleH)
    /\ frame = << >>
    /\ dstrect = Rect(0, 0, 0, 0)
    /\ dirty_window = FALSE
    /\ window_size = <<WINDOW_W, WINDOW_H>>
    /\ pressed = {}
    /\ state = SysA_run({})
    /\ render_i = 0
    /\ drawn = << >>
    /\ resets = 0
    /\ resized = FALSE
    /\ observed = "none"
    /\ written = 1..(ConsoleW * ConsoleH)
    /\ first_frame = TRUE
    /\ par = ParIdle

\* update_dstrect(&mut dstrect, canvas.window().size()) before the loop
Startup ==
    /\ pc = "startup"
    /\ dstrect' = update_dstrect(window_size)
    /\ pc' = "poll"
    /\ UNCHANGED <<console, frame, dirty_window, window_size, pressed, state,
                   render_i, drawn, resets, resized, observed, written,
                   first_frame, par>>

IsResize(e) == e \in {"Resized", "SizeChanged"}

\* the events handled before the for loop over poll_iter ends: all of them, or
\* those before the first Quit
RECURSIVE Handled(_)
Handled(evs) ==
    IF evs = << >> \/ Head(evs) = "Quit" THEN << >>
    ELSE <<Head(evs)>> \o Handled(Tail(evs))

\* for event in event_pump.poll_iter() { ... }; a resize event comes with the
\* window's new size
PollEvents ==
    /\ pc = "poll"
    /\ \E evs \in EventSeqs, size \in WindowSizes :
          LET seen == Handled(evs)
              rs   == \E k \in DOMAIN seen : IsResize(seen[k])
          IN  /\ dirty_window' = (dirty_window \/ rs)
              /\ resized' = rs
              /\ window_size' = IF \E k \in DOMAIN evs : IsResize(evs[k])
                                THEN size ELSE window_size
              /\ pc' = IF Len(seen) < Len(evs) THEN "done" ELSE "keys"
              /\ observed' = IF Len(seen) < Len(evs) THEN "Quit" ELSE observed
    /\ UNCHANGED <<console, frame, dstrect, pressed, state, render_i, drawn, resets,
                   written, first_frame, par>>

\* *world.fetch_mut::<PressedKeycodes>() = PressedKeycodes(keycodes)
ReadKeyboard ==
    /\ pc = "keys"
    /\ \E keys \in SUBSET Keycodes : pressed' = keys
    /\ pc' = "dispatch"
    /\ UNCHANGED <<console, frame, dstrect, dirty_window, window_size, state,
                   render_i, drawn, resets, resized, observed, written,
                   first_frame, par>>

\* dispatcher.dispatch(&mut world)
Dispatch ==
    /\ pc = "dispatch"
    /\ state' = SysA_run(pressed)
    /\ pc' = "mutate"
    /\ UNCHANGED <<console, frame, dstrect, dirty_window, window_size, pressed,
                   render_i, drawn, resets, resized, observed, written,
                   first_frame, par>>

\* if state.randomize { console.tiles_mut().par_iter_mut().for_each(...) }
MutationStage ==
    /\ pc = "mutate"
    /\ IF state.randomize
       THEN \E ds \in [DOMAIN console.tiles -> Draws] :
               /\ console' = [console EXCEPT !.tiles =
                     [k \in DOMAIN console.tiles |-> MutateTile(console.tiles[k], ds[k])]]
               /\ written' = written \cup {k \in DOMAIN console.tiles : Selects(ds[k])}
       ELSE /\ console' = console
            /\ written' = written
    /\ pc' = "quitcheck"
    /\ UNCHANGED <<frame, dstrect, dirty_window, window_size, pressed, state,
                   render_i, drawn, resets, resized, observed, first_frame, par>>

\* if state.quit { break 'main; }
QuitCheck ==
    /\ pc = "quitcheck"
    /\ pc' = IF state.quit THEN "done" ELSE "render"
    /\ render_i' = 0
    /\ UNCHANGED <<console, frame, dstrect, dirty_window, window_size, pressed,
                   state, drawn, resets, resized, observed, written,
                   first_frame, par>>

\* mutant: the Result of draw_tile is dropped and the loop goes on
AfterDraw_IgnoreErr(outcome, last) ==
    IF outcome \in {"PanicFill", "PanicCopy"} THEN "panic"
    ELSE IF last THEN "reset" ELSE "render"

\* mutant: the render loop is left after its first iteration
AfterDraw_Early(outcome, last) ==
    IF outcome = "Err" THEN "error"
    ELSE IF outcome \in {"PanicFill", "PanicCopy"} THEN "panic"
    ELSE "reset"

\* where main continues after one iteration of the render loop
AfterDraw(outcome, last) ==
    IF outcome = "Err" THEN "error"
    ELSE IF outcome \in {"PanicFill", "PanicCopy"} THEN "panic"
    ELSE IF last THEN "reset" ELSE "render"

\* what main has met after a draw_tile call
DrawSignal(outcome, before) ==
    IF outcome = "Err" THEN "DrawErr"
    ELSE IF outcome \in {"PanicFill", "PanicCopy"} THEN "DrawPanic"
    ELSE before

\* mutant: the render loop draws every tile
Tile_dirty_All(t) == TRUE

\* tile.dirty(), the condition the render loop draws a tile on
Tile_dirty(t) == t.dirty

\* one iteration of: for tile in console.tiles() { if tile.dirty() { draw_tile(..)? } }
RenderTile ==
    /\ pc = "render"
    /\ LET t    == console.tiles[render_i + 1]
           last == render_i + 1 = Len(console.tiles)
       IN  IF Tile_dirty(t)
           THEN \E outcome \in DrawOutcomes :
                   /\ frame' = draw_tile(frame, t, outcome)
                   /\ drawn' = Append(drawn, render_i)
                   /\ pc' = AfterDraw(outcome, last)
                   /\ observed' = DrawSignal(outcome, observed)
           ELSE /\ UNCHANGED <<frame, drawn, observed>>
                /\ pc' = AfterDraw("Ok", last)
    /\ render_i' = render_i + 1
    /\ UNCHANGED <<console, dstrect, dirty_window, window_size, pressed, state,
                   resets, resized, written, first_frame, par>>

\* console.reset_tiles()
ResetTiles ==
    /\ pc = "reset"
    /\ console' = reset_tiles(console)
    /\ resets' = resets + 1
    /\ pc' = "layout"
    /\ written' = {}
    /\ UNCHANGED <<frame, dstrect, dirty_window, window_size, pressed, state,
                   render_i, drawn, resized, observed, first_frame, par>>

\* mutant: dstrect is not recomputed in the loop
Relayout_Never ==
    /\ pc = "layout"
    /\ pc' = "present"
    /\ UNCHANGED <<console, frame, window_size, pressed, state, render_i, drawn,
                   resets, resized, observed, written, first_frame, par,
                   dstrect, dirty_window>>

\* if dirty_window { update_dstrect(..); dirty_window = false; }
Relayout ==
    /\ pc = "layout"
    /\ IF dirty_window
       THEN /\ dstrect' = update_dstrect(window_size)
            /\ dirty_window' = FALSE
       ELSE UNCHANGED <<dstrect, dirty_window>>
    /\ pc' = "present"
    /\ UNCHANGED <<console, frame, window_size, pressed, state, render_i, drawn,
                   resets, resized, observed, written, first_frame, par>>

\* canvas.clear(); canvas.copy(&frame_texture, None, dstrect)?; canvas.present();
\* the frame's instrumentation ends with the frame
Present ==
    /\ pc = "present"
    /\ \E ok \in BOOLEAN :
          IF ok
          THEN /\ pc' = "poll"
               /\ drawn' = << >>
               /\ resets' = 0
               /\ resized' = FALSE
               /\ render_i' = 0
               /\ first_frame' = FALSE
               /\ observed' = observed
          ELSE /\ pc' = "error"
               /\ observed' = "CopyErr"
               /\ UNCHANGED <<drawn, resets, resized, render_i, first_frame>>
    /\ UNCHANGED <<console, frame, dstrect, dirty_window, window_size, pressed, state,
                   written, par>>

Next ==
    \/ Startup
    \/ PollEvents
    \/ ReadKeyboard
    \/ Dispatch
    \/ MutationStage
    \/ QuitCheck
    \/ RenderTile
    \/ ResetTiles
    \/ Relayout
    \/ Present

Spec == Init /\ [][Next]_vars

\* the layout mapper on its own: main started in a window of any size
LayoutSizes ==
    ((1..MaxDim) \X (1..MaxDim))
        \cup {<<1280, 720>>, <<600, 1200>>, <<1920, 1080>>, <<1960, 960>>,
              <<3840, 2160>>, <<208, 300>>, <<208, 117>>, <<1344, 756>>}

LayoutInit ==
    /\ pc = "startup"
    /\ console = Console_new(ConsoleW, ConsoleH)
    /\ frame = << >>
    /\ dstrect = Rect(0, 0, 0, 0)
    /\ dirty_window = FALSE
    /\ window_size \in LayoutSizes
    /\ pressed = {}
    /\ state = SysA_run({})
    /\ render_i = 0
    /\ drawn = << >>
    /\ resets = 0
    /\ resized = FALSE
    /\ observed = "none"
    /\ written = 1..(ConsoleW * ConsoleH)
    /\ first_frame = TRUE
    /\ par = ParIdle

LayoutNext == Startup

LayoutSpec == LayoutInit /\ [][LayoutNext]_vars

----------------------------------------------------------------------------
(* The mutation stage worker by worker: par_iter_mut().for_each(closure)    *)
(* runs the closure once per tile on the threads of the pool, each call     *)
(* holding the &mut of its own tile; the writes of different calls          *)
(* interleave in any order and for_each returns when all calls have ended.  *)

WorkerDone == 4

\* mutant: the worker marks the next tile of the vec instead of its own
WorkerWrite_Neighbour(ts, k, d, at) ==
    IF at = 0
    THEN IF Selects(d)
         THEN [ts EXCEPT ![k].code_point = Cp437_from(d.cp % Cp437_Count)]
         ELSE ts
    ELSE IF at = 1
    THEN [ts EXCEPT ![k].foreground = RGBA(d.fr, d.fg, d.fb, 255)]
    ELSE IF at = 2
    THEN [ts EXCEPT ![k].background = RGBA(d.br % 32, d.bg % 32, d.bb % 32, 255)]
    ELSE [ts EXCEPT ![(k % Len(ts)) + 1].dirty = TRUE]

\* the tiles after the write the closure makes at position at, for the tile at
\* position k of the vec and the values d that random() returns to it
WorkerWrite(ts, k, d, at) ==
    IF at = 0
    THEN IF Selects(d)
         THEN [ts EXCEPT ![k].code_point = Cp437_from(d.cp % Cp437_Count)]
         ELSE ts
    ELSE IF at = 1
    THEN [ts EXCEPT ![k].foreground = RGBA(d.fr, d.fg, d.fb, 255)]
    ELSE IF at = 2
    THEN [ts EXCEPT ![k].background = RGBA(d.br % 32, d.bg % 32, d.bb % 32, 255)]
    ELSE [ts EXCEPT ![k].dirty = TRUE]

\* the closure returns at once when the tile is not selected
WorkerNext(d, at) == IF at = 0 /\ ~Selects(d) THEN WorkerDone ELSE at + 1

\* consoles the mutation stage starts from: the new console of the first
\* frame, the console after the first frame, and a console of mutated tiles
\* after a later frame
MutatingDraw == CHOOSE d \in Draws : Selects(d)

ParStarts ==
    LET c0 == Console_new(ConsoleW, ConsoleH)
        c1 == reset_tiles(c0)
        c2 == reset_tiles([c0 EXCEPT !.tiles =
                  [k \in DOMAIN c0.tiles |-> MutateTile(c0.tiles[k], MutatingDraw)]])
        shown(c) == [r \in {Tile_dstrect(c.tiles[k]) : k \in DOMAIN c.tiles} |->
                        Drawn(c.tiles[CHOOSE k \in DOMAIN c.tiles :
                                        Tile_dstrect(c.tiles[k]) = r])]
    IN  { [console |-> c0, frame |-> << >>, first |-> TRUE],
          [console |-> c1, frame |-> shown(c1), first |-> FALSE],
          [console |-> c2, frame |-> shown(c2), first |-> FALSE] }

\* main at the mutation stage of a frame with Space pressed
ParInit ==
    /\ pc = "mutate"
    /\ \E st \in ParStarts :
          /\ console = st.console
          /\ frame = st.frame
          /\ first_frame = st.first
          /\ written = {k \in DOMAIN st.console.tiles : st.console.tiles[k].dirty}
          /\ \E ds \in [DOMAIN st.console.tiles -> Draws] :
                par = [wpc |-> [k \in DOMAIN st.console.tiles |-> 0],
                       decisions |-> ds,
                       before |-> st.console.tiles]
    /\ dstrect = update_dstrect(<<WINDOW_W, WINDOW_H>>)
    /\ dirty_window = FALSE
    /\ window_size = <<WINDOW_W, WINDOW_H>>
    /\ pressed = {"Space"}
    /\ state = SysA_run({"Space"})
    /\ render_i = 0
    /\ drawn = << >>
    /\ resets = 0
    /\ resized = FALSE
    /\ observed = "none"

\* one write of one call of the closure
Worker ==
    /\ pc = "mutate"
    /\ state.randomize
    /\ \E k \in DOMAIN par.wpc :
          /\ par.wpc[k] < WorkerDone
          /\ console' = [console EXCEPT !.tiles =
                WorkerWrite(console.tiles, k, par.decisions[k], par.wpc[k])]
          /\ par' = [par EXCEPT !.wpc[k] = WorkerNext(par.decisions[k], par.wpc[k])]
    /\ UNCHANGED <<pc, frame, dstrect, dirty_window, window_size, pressed, state,
                   render_i, drawn, resets, resized, observed, written,
                   first_frame>>

\* for_each returns: every call of the closure has ended
Join ==
    /\ pc = "mutate"
    /\ par.wpc # << >>
    /\ \A k \in DOMAIN par.wpc : par.wpc[k] = WorkerDone
    /\ pc' = "quitcheck"
    /\ written' = written \cup {k \in DOMAIN par.wpc : Selects(par.decisions[k])}
    /\ UNCHANGED <<console, frame, dstrect, dirty_window, window_size, pressed,
                   state, render_i, drawn, resets, resized, observed,
                   first_frame, par>>

ParNext ==
    \/ Worker
    \/ Join

ParSpec == ParInit /\ [][ParNext]_vars

----------------------------------------------------------------------------
(* Helpers of the properties *)

Tiles == console.tiles
DrawnSet == {drawn[k] : k \in DOMAIN drawn}

\* the frame-texture cell of the tile at position k (1-based) of the vec, that
\* is of grid position (x, y) = ((k-1) % width, (k-1) / width)
CellRect(k) ==
    Rect(((k - 1) % ConsoleW) * TILE_W, ((k - 1) \div ConsoleW) * TILE_H,
         TILE_W, TILE_H)

Abs(n) == IF n < 0 THEN 0 - n ELSE n

Mutated(t) == t.code_point # Cp437_QuestionMark

----------------------------------------------------------------------------
(* C1: partial redraw.  When the render stage of a frame ends, the tiles    *)
(* passed to draw_tile are exactly the dirty tiles, each once; the render   *)
(* stage leaves the dirty flags alone, each of its steps writes at most the *)
(* cell (x*TILE_W, y*TILE_H, TILE_W, TILE_H) of the tile it visits, and the *)
(* cell of a tile that is not dirty is never written; no other stage writes *)
(* the frame texture.                                                       *)
C1_DrawnIsDirty ==
    pc = "reset" =>
        /\ DrawnSet = {k - 1 : k \in {j \in DOMAIN Tiles : Tiles[j].dirty}}
        /\ Len(drawn) = Cardinality(DrawnSet)

C1_SkippedUntouched ==
    /\ pc # "render" => frame' = frame
    /\ pc = "render" =>
          /\ console' = console
          /\ \A k \in DOMAIN Tiles :
                (~Tiles[k].dirty \/ k # render_i + 1)
                    => Cell(frame', CellRect(k)) = Cell(frame, CellRect(k))
          /\ DOMAIN frame' \subseteq {CellRect(k) : k \in DOMAIN Tiles}

C1_PartialRedraw == [](C1_DrawnIsDirty) /\ [][C1_SkippedUntouched]_vars

\* a render stage has ended that drew one tile and skipped another whose cell
\* still holds what an earlier frame drew
C1_Witness ==
    /\ pc = "reset"
    /\ \E k, j \in DOMAIN Tiles :
          /\ Tiles[k].dirty /\ (k - 1) \in DrawnSet
          /\ ~Tiles[j].dirty /\ (j - 1) \notin DrawnSet
          /\ Cell(frame, CellRect(j)) = Drawn(Tiles[j])

(* C2: dirty-flag lifecycle.  Where the frame is presented, after render    *)
(* and reset_tiles, every tile has dirty = false.                           *)
C2_AllCleanAtPresent ==
    pc \in {"layout", "present"} => \A k \in DOMAIN Tiles : ~Tiles[k].dirty

\* a frame that mutated and drew tiles is about to be presented
C2_Witness ==
    /\ pc = "present"
    /\ state.randomize
    /\ Len(drawn) > 0
    /\ \E k \in DOMAIN Tiles : Mutated(Tiles[k])

(* C3: no dropped redraw.  reset_tiles runs once per frame that reaches     *)
(* present and not before the render loop has visited every tile; a dirty   *)
(* flag goes from true to false only on a tile drawn earlier in the frame.  *)
C3_ResetOnce ==
    /\ pc \in {"layout", "present"} => resets = 1
    /\ pc \in {"poll", "keys", "dispatch", "mutate", "quitcheck", "render",
               "reset", "done"} => resets = 0

C3_ClearedWasDrawn ==
    \A k \in DOMAIN Tiles :
        (Tiles[k].dirty /\ ~console'.tiles[k].dirty)
            => /\ (k - 1) \in DrawnSet
               /\ render_i = Len(Tiles)

C3_NoDroppedRedraw == [](C3_ResetOnce) /\ [][C3_ClearedWasDrawn]_vars

\* reset_tiles has just cleared the flags of a frame in which only some of the
\* tiles were dirty and drawn
C3_Witness ==
    /\ pc = "layout"
    /\ resets = 1
    /\ Len(drawn) > 0
    /\ Len(drawn) < Len(Tiles)

(* C4: out-of-bounds access.  For every (x, y) with x >= width or           *)
(* y >= height, tile_mut(x, y) is None: no tile and no panic.               *)
C4_OutOfBoundsIsNone ==
    \A x \in 0..(console.width + 1), y \in 0..(console.height + 1) :
        (x >= console.width \/ y >= console.height)
            => tile_mut(console, x, y) = None

(* C5: index bijection.  In every state the vec holds width*height tiles    *)
(* and tile_mut(x, y), for x < width and y < height, is the tile at index   *)
(* x + y*width, whose (row, col) is (x, y); no step changes a tile's row or *)
(* col or the console's width, height or number of tiles.                   *)
C5_Bijection ==
    /\ console.width = ConsoleW /\ console.height = ConsoleH
    /\ Len(Tiles) = console.width * console.height
    /\ \A x \in 0..(console.width - 1), y \in 0..(console.height - 1) :
          LET r == tile_mut(console, x, y)
          IN  /\ r.tag = "Some"
              /\ r.at = x + y * console.width
              /\ r.tile = Tiles[x + y * console.width + 1]
              /\ r.tile.row = x /\ r.tile.col = y

C5_ShapeKept ==
    /\ console'.width = console.width
    /\ console'.height = console.height
    /\ Len(console'.tiles) = Len(Tiles)
    /\ \A k \in DOMAIN Tiles :
          /\ console'.tiles[k].row = Tiles[k].row
          /\ console'.tiles[k].col = Tiles[k].col

----------------------------------------------------------------------------
(* Properties of the layout mapper, for the window size dstrect was computed *)
(* from                                                                      *)

WinW == window_size[1]
WinH == window_size[2]
LaidOut == pc = "poll"

(* C6: layout containment.  The rectangle computed by update_dstrect lies   *)
(* inside the window: x >= 0, y >= 0, x + w <= window width and             *)
(* y + h <= window height.                                                  *)
C6_Containment ==
    LaidOut =>
        /\ dstrect.x >= 0
        /\ dstrect.y >= 0
        /\ dstrect.x + dstrect.w <= WinW
        /\ dstrect.y + dstrect.h <= WinH

\* a window wider than the reference: the rectangle is centred with bars on
\* both sides
C6_Witness ==
    /\ LaidOut
    /\ dstrect.x > 0
    /\ dstrect.w > 0
    /\ dstrect.x + dstrect.w < WinW

(* C7: aspect preservation.  The destination rectangle has the aspect ratio *)
(* of the frame texture, FRAME_W : FRAME_H, up to one pixel on each side.   *)
C7_AspectOfFrame ==
    LaidOut =>
        Abs(dstrect.w * FRAME_H - dstrect.h * FRAME_W) <= FRAME_W + FRAME_H

\* n / d rounded to the nearest integer (n >= 0, d > 0)
RoundNearest(n, d) == (2 * n + d) \div (2 * d)

\* the window is wider than the reference aspect: w / rw > h / rh
Wider == WinW * WINDOW_H > WinH * WINDOW_W

(* C8 as stated: in the height-binding branch destH = h,                    *)
(* destW = round(h/rh * rw) to the nearest, destX = (w - destW)/2, destY = 0 *)
C8_HeightBindingRounded ==
    (LaidOut /\ Wider) =>
        /\ dstrect.h = WinH
        /\ dstrect.w = RoundNearest(WinH * WINDOW_W, WINDOW_H)
        /\ dstrect.x = (WinW - dstrect.w) \div 2
        /\ dstrect.y = 0

(* C8 amended: in the height-binding branch destH = h, destW is h/rh * rw   *)
(* truncated toward zero, floor(h * rw / rh), destX is (w - destW)/2        *)
(* truncated, and destY = 0.                                                *)
C8_HeightBindingTruncated ==
    (LaidOut /\ Wider) =>
        /\ dstrect.h = WinH
        /\ dstrect.w = (WinH * WINDOW_W) \div WINDOW_H
        /\ dstrect.x = (WinW - dstrect.w) \div 2
        /\ dstrect.y = 0

\* a wider window in which truncation and rounding to nearest differ
C8_Witness ==
    /\ LaidOut /\ Wider
    /\ dstrect.w # RoundNearest(WinH * WINDOW_W, WINDOW_H)
    /\ dstrect.x > 0

----------------------------------------------------------------------------
(* C9: the mutation stage of a frame in which Space is not among the        *)
(* pressed keys changes no field of any tile, whatever the earlier frames.  *)
C9_Untriggered ==
    (pc = "mutate" /\ "Space" \notin pressed) => console' = console

C9_NoOpUnlessTriggered == [][C9_Untriggered]_vars

\* the mutation stage has run without Space in a frame that follows a frame
\* with a mutation
C9_Witness ==
    /\ pc = "quitcheck"
    /\ "Space" \notin pressed
    /\ ~state.randomize
    /\ \E k \in DOMAIN Tiles : Mutated(Tiles[k])

(* C10: after a triggered mutation stage every tile either has all its      *)
(* fields as before, or is dirty with a glyph code in [0, Cp437::Count), a  *)
(* foreground of alpha 255, a background with r, g, b in 0..31 and alpha    *)
(* 255, and its row and col as before.                                      *)
C10_Selected(old, new) ==
    /\ new.dirty
    /\ new.code_point \in 0..(Cp437_Count - 1)
    /\ new.foreground.a = 255
    /\ new.foreground.r \in 0..255
    /\ new.foreground.g \in 0..255
    /\ new.foreground.b \in 0..255
    /\ new.background.r \in 0..31
    /\ new.background.g \in 0..31
    /\ new.background.b \in 0..31
    /\ new.background.a = 255
    /\ new.row = old.row /\ new.col = old.col
    /\ new.animations = old.animations

C10_Triggered ==
    (pc = "mutate" /\ state.randomize) =>
        \A k \in DOMAIN Tiles :
            \/ console'.tiles[k] = Tiles[k]
            \/ C10_Selected(Tiles[k], console'.tiles[k])

C10_MutationPostcondition == [][C10_Triggered]_vars

\* a triggered mutation stage has run that selected one tile, now dirty with
\* new attributes, and left another one clean
C10_Witness ==
    /\ pc = "quitcheck"
    /\ state.randomize
    /\ \E k, j \in DOMAIN Tiles :
          /\ Tiles[k].dirty /\ Mutated(Tiles[k])
          /\ Cell(frame, CellRect(k)) # Drawn(Tiles[k])
          /\ ~Tiles[j].dirty

----------------------------------------------------------------------------
(* C11: single dirty-setter.  A dirty flag goes from false to true only in  *)
(* the mutation stage of a frame whose randomize flag is set; poll, render, *)
(* reset_tiles, the layout step and present never set one.                  *)
C11_SetOnlyByMutation ==
    \A k \in DOMAIN Tiles :
        (~Tiles[k].dirty /\ console'.tiles[k].dirty)
            => (pc = "mutate" /\ state.randomize)

C11_SingleDirtySetter == [][C11_SetOnlyByMutation]_vars

\* a triggered mutation stage has set the flag of a tile that an earlier frame
\* had drawn and reset
C11_Witness ==
    /\ pc = "quitcheck"
    /\ state.randomize
    /\ ~first_frame
    /\ \E k \in DOMAIN Tiles :
          Tiles[k].dirty /\ Cell(frame, CellRect(k)).kind = "drawn"

(* C12: quit handling.  A frame that polls a Quit event ends the loop at    *)
(* once; a frame with Escape among the pressed keys ends it at the quit     *)
(* check, before the render stage; from the quit signal on no tile is       *)
(* drawn, no dirty flag cleared and no frame presented.  The stages of a    *)
(* frame follow each other in the order poll, keys, dispatch, mutate, quit  *)
(* check, render, reset, layout, present.                                   *)
QuitSignal ==
    \/ observed = "Quit"
    \/ pc \in {"dispatch", "mutate", "quitcheck"} /\ "Escape" \in pressed

StageOrder ==
    { <<"startup", "poll">>, <<"poll", "keys">>, <<"poll", "done">>,
      <<"keys", "dispatch">>, <<"dispatch", "mutate">>,
      <<"mutate", "quitcheck">>, <<"quitcheck", "render">>,
      <<"quitcheck", "done">>, <<"render", "render">>, <<"render", "reset">>,
      <<"render", "error">>, <<"render", "panic">>, <<"reset", "layout">>,
      <<"layout", "present">>, <<"present", "poll">>, <<"present", "error">> }

C12_QuitState ==
    /\ observed = "Quit" => pc = "done"
    /\ pc \in {"render", "reset", "layout", "present"}
          => ("Escape" \notin pressed /\ ~state.quit)

C12_QuitStep ==
    /\ <<pc, pc'>> \in StageOrder
    /\ (pc = "poll" /\ observed' = "Quit") => pc' = "done"
    /\ (QuitSignal \/ observed' = "Quit") =>
          /\ pc' \in {"mutate", "quitcheck", "done"}
          /\ frame' = frame
          /\ drawn' = drawn
          /\ resets' = resets
          /\ \A k \in DOMAIN Tiles : Tiles[k].dirty => console'.tiles[k].dirty

C12_QuitHandling == [](C12_QuitState) /\ [][C12_QuitStep]_vars

\* the loop has ended at the quit check of a frame with Escape and Space
\* pressed: its mutation stage ran, and the tiles it marked were never drawn
C12_Witness ==
    /\ pc = "done"
    /\ observed = "none"
    /\ "Escape" \in pressed /\ state.quit /\ state.randomize
    /\ ~first_frame
    /\ \E k \in DOMAIN Tiles :
          Tiles[k].dirty /\ Cell(frame, CellRect(k)) # Drawn(Tiles[k])

(* C13: a failure is fatal.  When draw_tile or the copy of the frame        *)
(* texture to the window fails, main ends in that step with an error (or a  *)
(* panic of an expect call); the frame is not presented and main takes no   *)
(* further step.                                                            *)
Failures == {"DrawErr", "DrawPanic", "CopyErr"}

C13_FailureState ==
    /\ observed \in {"DrawErr", "CopyErr"} => pc = "error"
    /\ observed = "DrawPanic" => pc = "panic"
    /\ pc \in {"error", "panic"} => observed \in Failures

C13_FailureStep ==
    /\ pc \in {"error", "panic"} => UNCHANGED vars
    /\ observed' \in Failures =>
          /\ pc' \in {"error", "panic"}
          /\ first_frame' = first_frame
          /\ resets' = resets

C13_FailureIsFatal == [](C13_FailureState) /\ [][C13_FailureStep]_vars

\* draw_tile has returned an error on the second dirty tile of a frame after
\* the first one: main has ended with the other flags still set
C13_Witness ==
    /\ pc = "error"
    /\ observed = "DrawErr"
    /\ ~first_frame
    /\ Len(drawn) > 1
    /\ \E k \in DOMAIN Tiles : Tiles[k].dirty

(* C14 as stated: a tile's dirty flag is true iff its attributes were       *)
(* written since the last reset_tiles call and the tile has not been drawn  *)
(* since.                                                                   *)
C14_DirtyIffChangedUndrawn ==
    \A k \in DOMAIN Tiles :
        Tiles[k].dirty <=> (k \in written /\ (k - 1) \notin DrawnSet)

(* C14 amended: a tile's dirty flag is true iff the tile was constructed or *)
(* selected by a mutation stage since the last reset_tiles call, whether or *)
(* not it has been drawn since.                                             *)
C14_DirtyIffWritten ==
    \A k \in DOMAIN Tiles : Tiles[k].dirty <=> k \in written

\* the render stage has drawn a mutated tile, which is still dirty, and has
\* skipped a tile not written since the last reset
C14_Witness ==
    /\ pc = "reset"
    /\ ~first_frame
    /\ \E k, j \in DOMAIN Tiles :
          /\ Tiles[k].dirty /\ k \in written /\ (k - 1) \in DrawnSet
          /\ Cell(frame, CellRect(k)) = Drawn(Tiles[k])
          /\ ~Tiles[j].dirty /\ j \notin written

(* C15: frame-buffer coherence.  At every present the cell of every tile    *)
(* holds what draw_tile draws from the tile's current glyph, foreground and *)
(* background.                                                              *)
C15_CoherentAtPresent ==
    pc = "present" =>
        \A k \in DOMAIN Tiles : Cell(frame, CellRect(k)) = Drawn(Tiles[k])

\* a later frame is about to be presented that redrew a mutated tile and kept
\* the cell of a tile still at its default
C15_Witness ==
    /\ pc = "present"
    /\ ~first_frame
    /\ Len(drawn) > 0 /\ Len(drawn) < Len(Tiles)
    /\ \E k, j \in DOMAIN Tiles : Mutated(Tiles[k]) /\ ~Mutated(Tiles[j])

(* C16: initial full draw.  Console::new makes width*height tiles in        *)
(* row-major order, all default and dirty; until the first frame is         *)
(* rendered every tile stays dirty, and the render stage of the first       *)
(* frame, run to its end, passes every tile to draw_tile once, in order,    *)
(* with or without a mutation in that frame.                                *)
C16_FirstFrame ==
    /\ pc = "startup" =>
          /\ Len(Tiles) = ConsoleW * ConsoleH
          /\ \A k \in DOMAIN Tiles :
                /\ Tiles[k].row = (k - 1) % ConsoleW
                /\ Tiles[k].col = (k - 1) \div ConsoleW
                /\ Tiles[k].code_point = Cp437_QuestionMark
                /\ Tiles[k].foreground = RGBA(255, 0, 0, 255)
                /\ Tiles[k].background = RGBA(0, 0, 255, 255)
                /\ Tiles[k].dirty
    /\ (first_frame /\ pc \in {"poll", "keys", "dispatch", "mutate",
                               "quitcheck", "render", "reset"})
          => \A k \in DOMAIN Tiles : Tiles[k].dirty
    /\ (first_frame /\ pc = "reset")
          => drawn = [k \in 1..(ConsoleW * ConsoleH) |-> k - 1]
    /\ (first_frame /\ pc \in {"layout", "present"})
          => Len(drawn) = ConsoleW * ConsoleH

\* the render stage of the first frame has ended after a mutation stage that
\* changed a tile
C16_Witness ==
    /\ first_frame
    /\ pc = "reset"
    /\ state.randomize
    /\ Len(drawn) = Len(Tiles)
    /\ \E k \in DOMAIN Tiles : Mutated(Tiles[k])

(* C17: dstrect changes only in a frame that polled a Resized or            *)
(* SizeChanged event (after the first update_dstrect before the loop), and  *)
(* in such a frame the dstrect of the blit is the one update_dstrect        *)
(* computes from the window's size.                                         *)
C17_Refreshed ==
    (pc = "present" /\ resized) =>
        /\ dstrect = update_dstrect(window_size)
        /\ ~dirty_window

C17_Stable == (dstrect' # dstrect) => (pc = "startup" \/ resized)

C17_DestRectStability == [](C17_Refreshed) /\ [][C17_Stable]_vars

\* a frame that polled a resize is about to blit into a rectangle that differs
\* from the one of the default window
C17_Witness ==
    /\ pc = "present"
    /\ resized
    /\ window_size # <<WINDOW_W, WINDOW_H>>
    /\ dstrect # update_dstrect(<<WINDOW_W, WINDOW_H>>)

(* C18: layout ties.  For a window whose two ratios are equal the layout    *)
(* mapper gives the result of the height-binding branch: destH = h,         *)
(* destY = 0, destW computed from h and destX = (w - destW)/2.              *)
Tie == F32Div(WinW, WINDOW_W) = F32Div(WinH, WINDOW_H)

C18_TieHeightBinding ==
    (LaidOut /\ Tie) =>
        /\ dstrect.h = WinH
        /\ dstrect.y = 0
        /\ dstrect.w = (WinH * WINDOW_W) \div WINDOW_H
        /\ dstrect.x = (WinW - dstrect.w) \div 2

----------------------------------------------------------------------------
(* C19: parallel mutation independence.  A write of a worker changes only   *)
(* the worker's own tile, and when for_each returns, after any interleaving *)
(* of the workers' writes, every tile is what the closure makes of that     *)
(* tile's value before the stage and that tile's own random values.         *)
C19_SameAsSequential ==
    pc = "quitcheck" =>
        Tiles = [k \in DOMAIN par.before |->
                    MutateTile(par.before[k], par.decisions[k])]

C19_OwnTileOnly ==
    pc = "mutate" =>
        /\ Len(console'.tiles) = Len(Tiles)
        /\ \A j \in DOMAIN Tiles :
              par'.wpc[j] = par.wpc[j] => console'.tiles[j] = Tiles[j]
        /\ Cardinality({j \in DOMAIN Tiles : par'.wpc[j] # par.wpc[j]}) <= 1

C19_ParallelIndependence == [](C19_SameAsSequential) /\ [][C19_OwnTileOnly]_vars

\* for_each has returned after two workers mutated two tiles that were clean
C19_Witness ==
    /\ pc = "quitcheck"
    /\ \E k, j \in DOMAIN Tiles :
          /\ k # j
          /\ Selects(par.decisions[k]) /\ Selects(par.decisions[j])
          /\ ~par.before[k].dirty /\ ~par.before[j].dirty
          /\ Tiles[k].dirty /\ Tiles[j].dirty

====
